---------------------------- MODULE Spec2Model ----------------------------
(***************************************************************************)
(* A model of muse.py: the AudioRecorder (capture stream, callback thread, *)
(* frame queue), the MusicRecognizer (fingerprint cache, temporary audio   *)
(* payload, remote identification) and the MusicRecognitionSystem          *)
(* controller (the polling main loop and _process_audio).                  *)
(*                                                                         *)
(* The main thread is a program counter `pc` with a stack of return        *)
(* labels; a label is named after the method and the source line it stands *)
(* at.  The PortAudio callback thread is a second process (`cb`).          *)
(***************************************************************************)
EXTENDS Integers, Sequences, FiniteSets, TLC

VARIABLES
    \* main thread
    pc,            \* label of the next statement the main thread executes
    stack,         \* return labels of the calls in progress (innermost first)
    retval,        \* value returned by the call that returned last
    exc,           \* exception propagating out of the call that returned last
    \* AudioRecorder
    recording,     \* self.recording
    audio_queue,   \* self.audio_queue (frames in arrival order)
    stream,        \* self.stream: "unset", "open", "active", "stopped", "closed"
    epoch,         \* number of InputStream objects constructed so far
    delivered,     \* callbacks the current stream has made
    ambient,       \* amplitude the microphone hears during the current capture
    cb,            \* the callback thread: [at, frame]
    \* MusicRecognizer
    cache,         \* self.cache: sequence of <<key, song_info>>, insertion order
    cache_file,    \* the cache file: [state, text]
    temp_files,    \* temporary audio payloads that exist on disk
    rm,            \* locals of recognize_music
    \* MusicRecognitionSystem
    running,       \* self.running
    listening,     \* self.listening
    elapsed,       \* time.time() - start_time, in ticks
    audio_data,    \* _process_audio's audio_data
    \* MusicDisplayGUI
    events,        \* user commands the window has not handed to run() yet
    status,        \* '-STATUS-'
    current_song,  \* the record shown as current song
    history,       \* the records shown in '-HISTORY-'
    \* observation (not program state)
    obs,
    \* the inputs this run draws from: [amps, outcomes, disk, files]
    inputs

mainVars  == <<pc, stack, retval, exc>>
recVars   == <<recording, audio_queue, stream, epoch, delivered, ambient, cb>>
rzVars    == <<cache, cache_file, temp_files, rm>>
ctlVars   == <<running, listening, elapsed, audio_data>>
guiVars   == <<events, status, current_song, history>>
vars      == <<mainVars, recVars, rzVars, ctlVars, guiVars, obs, inputs>>

-----------------------------------------------------------------------------
(* Bounds of the model. *)

\* callbacks one capture stream makes at most
MaxFrames == 3
\* InputStream objects constructed in one run at most
MaxStreams == 2
\* user commands waiting in the window at most
MaxPending == 1
\* recognize_music calls a test client makes at most
MaxCalls == 2
\* frames in a buffer a test client passes at most
MaxBufFrames == 2
\* times the recognizer is constructed again at most
MaxRestarts == 1

(* CONFIG, src/muse.py:26-39.  Times are in ticks of the 0.1 s the loops    *)
(* of _process_audio sleep; sample_rate and chunk_size are scaled down so   *)
(* that a handful of frames crosses min_recording_length * sample_rate.    *)
sample_rate == 2
chunk_size == 5
min_recording_length == 5
max_recording_length == 15
retry_count == 3
TicksPerSecond == 10
\* is_sound_present(duration=1.0) blocks for one second
ProbeTicks == 10

\* amplitudes a frame can carry
Amps == {1, 2}

None == <<>>
NoSong == [none |-> TRUE]

-----------------------------------------------------------------------------
(* Calls, returns and exceptions of the main thread. *)

Call(callee, ret) ==
    /\ pc' = callee
    /\ stack' = <<ret>> \o stack
    /\ UNCHANGED <<retval, exc>>

Return(v) ==
    /\ pc' = Head(stack)
    /\ stack' = Tail(stack)
    /\ retval' = v
    /\ exc' = "none"

Raise(e) ==
    /\ pc' = Head(stack)
    /\ stack' = Tail(stack)
    /\ retval' = None
    /\ exc' = e

Goto(l) ==
    /\ pc' = l
    /\ UNCHANGED <<stack, retval, exc>>

-----------------------------------------------------------------------------
(* AudioRecorder._audio_callback, on the PortAudio thread. *)

CbIdle == [at |-> "idle", frame |-> None]

\* PortAudio invokes the callback with a block of input
CallbackInvoke ==
    /\ stream = "active"
    /\ cb.at = "idle"
    /\ delivered < MaxFrames
    /\ delivered' = delivered + 1
    /\ cb' = [at |-> "84",
              frame |-> <<[amp |-> ambient, n |-> delivered + 1,
                           epoch |-> epoch, rec |-> recording]>>]
    /\ UNCHANGED <<recording, audio_queue, stream, epoch, ambient>>
    /\ UNCHANGED <<mainVars, rzVars, ctlVars, guiVars, obs, inputs>>

\* a callback that puts whatever it is handed
CallbackCheckAlways ==
    /\ cb.at = "84"
    /\ cb' = [cb EXCEPT !.at = "85"]
    /\ UNCHANGED <<recording, audio_queue, stream, epoch, delivered, ambient>>
    /\ UNCHANGED <<mainVars, rzVars, ctlVars, guiVars, obs, inputs>>

\* line 84: if self.recording
CallbackCheck ==
    /\ cb.at = "84"
    /\ cb' = IF recording THEN [cb EXCEPT !.at = "85"] ELSE CbIdle
    /\ UNCHANGED <<recording, audio_queue, stream, epoch, delivered, ambient>>
    /\ UNCHANGED <<mainVars, rzVars, ctlVars, guiVars, obs, inputs>>

\* line 85: self.audio_queue.put(indata.copy())
CallbackPut ==
    /\ cb.at = "85"
    /\ audio_queue' = audio_queue \o cb.frame
    /\ cb' = CbIdle
    /\ obs' = [obs EXCEPT !.put = @ \o cb.frame]
    /\ UNCHANGED <<recording, stream, epoch, delivered, ambient>>
    /\ UNCHANGED <<mainVars, rzVars, ctlVars, guiVars, inputs>>

Callback == CallbackInvoke \/ CallbackCheck \/ CallbackPut

-----------------------------------------------------------------------------
(* AudioRecorder.start_recording *)

\* a test that never finds a recording in progress
AlreadyRecordingNever == FALSE

\* line 89: if self.recording
AlreadyRecording == recording

\* lines 89-91
StartRecording_89 ==
    /\ pc = "start_recording:89"
    /\ IF AlreadyRecording
       THEN Return(None) /\ UNCHANGED obs
       ELSE Goto("start_recording:93") /\ obs' = [obs EXCEPT !.put = <<>>]
    /\ UNCHANGED <<recVars, rzVars, ctlVars, guiVars, inputs>>

\* line 93
StartRecording_93 ==
    /\ pc = "start_recording:93"
    /\ recording' = TRUE
    /\ Goto("start_recording:94")
    /\ UNCHANGED <<audio_queue, stream, epoch, delivered, ambient, cb>>
    /\ UNCHANGED <<rzVars, ctlVars, guiVars, obs, inputs>>

\* line 94
StartRecording_94 ==
    /\ pc = "start_recording:94"
    /\ audio_queue' = <<>>
    /\ Goto("start_recording:97")
    /\ UNCHANGED <<recording, stream, epoch, delivered, ambient, cb>>
    /\ UNCHANGED <<rzVars, ctlVars, guiVars, obs, inputs>>

\* lines 97-104: sd.InputStream(...) is constructed and assigned, or raises
\* and leaves self.stream as it was (lines 107-109 re-raise)
StartRecording_97 ==
    /\ pc = "start_recording:97"
    /\ \/ /\ epoch < MaxStreams
          /\ stream' = "open"
          /\ epoch' = epoch + 1
          /\ delivered' = 0
          /\ Goto("start_recording:105")
       \/ /\ Raise("PortAudioError")
          /\ UNCHANGED <<stream, epoch, delivered>>
    /\ UNCHANGED <<recording, audio_queue, ambient, cb>>
    /\ UNCHANGED <<rzVars, ctlVars, guiVars, obs, inputs>>

\* line 105: self.stream.start() starts the callbacks, or raises
StartRecording_105 ==
    /\ pc = "start_recording:105"
    /\ \/ /\ stream' = "active"
          /\ \E a \in inputs.amps : ambient' = a
          /\ Return(None)
       \/ /\ Raise("PortAudioError")
          /\ UNCHANGED <<stream, ambient>>
    /\ UNCHANGED <<recording, audio_queue, epoch, delivered, cb>>
    /\ UNCHANGED <<rzVars, ctlVars, guiVars, obs, inputs>>

start_recording ==
    \/ StartRecording_89
    \/ StartRecording_93
    \/ StartRecording_94
    \/ StartRecording_97
    \/ StartRecording_105

-----------------------------------------------------------------------------
(* AudioRecorder.stop_recording *)

\* lines 113-115
StopRecording_113 ==
    /\ pc = "stop_recording:113"
    /\ IF ~recording THEN Return(None) ELSE Goto("stop_recording:117")
    /\ UNCHANGED <<recVars, rzVars, ctlVars, guiVars, obs, inputs>>

\* a stop that leaves the flag set
FlagAfterStopKept == TRUE

\* line 117: the value self.recording is given
FlagAfterStop == FALSE

\* line 117
StopRecording_117 ==
    /\ pc = "stop_recording:117"
    /\ recording' = FlagAfterStop
    /\ Goto("stop_recording:118")
    /\ UNCHANGED <<audio_queue, stream, epoch, delivered, ambient, cb>>
    /\ UNCHANGED <<rzVars, ctlVars, guiVars, obs, inputs>>

\* line 118: self.stream.stop().  No stream was ever assigned: AttributeError.
\* An active stream is stopped once the callback in progress has returned.
\* A stream that is not active (never started, or closed by an earlier
\* stop_recording) is handed to Pa_StopStream, whose error is ignored; for a
\* closed stream the pointer is dangling, and the call may also fault.
StopRecording_118 ==
    /\ pc = "stop_recording:118"
    /\ \/ /\ stream = "unset"
          /\ Raise("AttributeError")
          /\ UNCHANGED stream
       \/ /\ stream = "active"
          /\ cb.at = "idle"
          /\ stream' = "stopped"
          /\ Goto("stop_recording:119")
       \/ /\ stream \in {"open", "stopped", "closed"}
          /\ Goto("stop_recording:119")
          /\ UNCHANGED stream
       \/ /\ stream = "closed"
          /\ pc' = "fault"
          /\ UNCHANGED <<stack, retval, exc, stream>>
    /\ UNCHANGED <<recording, audio_queue, epoch, delivered, ambient, cb>>
    /\ UNCHANGED <<rzVars, ctlVars, guiVars, obs, inputs>>

\* line 119: self.stream.close()
StopRecording_119 ==
    /\ pc = "stop_recording:119"
    /\ \/ /\ stream' = "closed"
          /\ Goto("stop_recording:123")
       \/ /\ stream = "closed"
          /\ pc' = "fault"
          /\ UNCHANGED <<stack, retval, exc, stream>>
    /\ UNCHANGED <<recording, audio_queue, epoch, delivered, ambient, cb>>
    /\ UNCHANGED <<rzVars, ctlVars, guiVars, obs, inputs>>

\* np.concatenate(audio_data, axis=0): the frames' samples, in list order
Concatenate(frames) == frames

\* a drain that hands the newest frame first
DrainNewestFirst(q) == [i \in 1..Len(q) |-> q[Len(q) + 1 - i]]

\* lines 123-125: while not empty: audio_data.append(get())
Drain(q) == q

\* lines 122-131
StopRecording_123 ==
    /\ pc = "stop_recording:123"
    /\ audio_queue' = <<>>
    /\ Return(Concatenate(Drain(audio_queue)))
    /\ obs' = [obs EXCEPT !.put = <<>>]
    /\ UNCHANGED <<recording, stream, epoch, delivered, ambient, cb>>
    /\ UNCHANGED <<rzVars, ctlVars, guiVars, inputs>>

stop_recording ==
    \/ StopRecording_113
    \/ StopRecording_117
    \/ StopRecording_118
    \/ StopRecording_119
    \/ StopRecording_123

-----------------------------------------------------------------------------
(* Python values. *)

Has(o, k) == k \in DOMAIN o
Get(o, k, d) == IF Has(o, k) THEN o[k] ELSE d
EmptyObj == <<>>
Unknown == "Unknown"
UnknownChars == <<"U", "n", "k", "n", "o", "w", "n">>

\* a dict as a sequence of <<key, value>> in insertion order
DictKeys(d) == {d[i][1] : i \in 1..Len(d)}
DictGet(d, k) == d[CHOOSE i \in 1..Len(d) : d[i][1] = k][2]
DictValues(d) == [i \in 1..Len(d) |-> d[i][2]]
\* an assignment that only replaces
DictSetOnlyPresent(d, k, v) ==
    [i \in 1..Len(d) |-> IF d[i][1] = k THEN <<k, v>> ELSE d[i]]

\* d[k] = v: a present key keeps its place
DictSet(d, k, v) ==
    IF k \in DictKeys(d)
    THEN [i \in 1..Len(d) |-> IF d[i][1] = k THEN <<k, v>> ELSE d[i]]
    ELSE Append(d, <<k, v>>)

RECURSIVE SumAmp(_)
SumAmp(frames) ==
    IF frames = <<>> THEN 0 ELSE Head(frames).amp + SumAmp(Tail(frames))

RECURSIVE SumSq(_)
SumSq(frames) ==
    IF frames = <<>> THEN 0
    ELSE Head(frames).amp * Head(frames).amp + SumSq(Tail(frames))

\* len(audio_data): every frame holds chunk_size samples
NumSamples(audio) == Len(audio) * chunk_size

-----------------------------------------------------------------------------
(* MusicRecognizer *)

\* a fingerprint that leaves the deviation out
FingerprintNoStd(audio) ==
    [mean |-> <<chunk_size * SumAmp(audio), NumSamples(audio)>>,
     std  |-> <<0, 1>>,
     len  |-> NumSamples(audio)]

\* lines 307-323: mean and std of the samples and their number.  The mean is
\* the fraction <<sum, n>> and std the root of the fraction
\* <<n * sum of squares - sum^2, n^2>>.
GenerateFingerprint(audio) ==
    LET n  == NumSamples(audio)
        s  == chunk_size * SumAmp(audio)
        s2 == chunk_size * SumSq(audio)
    IN  [mean |-> <<s, n>>,
         std  |-> <<n * s2 - s * s, n * n>>,
         len  |-> n]

\* line 214: json.dumps(fingerprint, sort_keys=True)
FingerprintKey(fp) == <<fp.len, fp.mean, fp.std>>

\* json.dump of the cache: an object text, its members "name": value in
\* insertion order
JsonDump(d) == [i \in 1..Len(d) |-> [name |-> d[i][1], value |-> d[i][2]]]

\* a reader that finds no member
JsonLoadNothing(text) == <<>>

RECURSIVE JsonLoad(_)
\* json.load: the members are inserted in the order they are read
JsonLoad(text) ==
    IF text = <<>> THEN <<>>
    ELSE LET init == JsonLoad(SubSeq(text, 1, Len(text) - 1))
             last == text[Len(text)]
         IN  DictSet(init, last.name, last.value)

FileAbsent == [state |-> "absent", text |-> <<>>]
FileCorrupt == [state |-> "corrupt", text |-> <<>>]
FileJson(d) == [state |-> "json", text |-> JsonDump(d)]

\* lines 156-166
LoadCache(file) ==
    IF file.state = "json" THEN JsonLoad(file.text) ELSE <<>>

\* the music entries a response can carry
ReleaseDate == <<"2", "0", "2", "0", "-", "0", "5", "-", "0", "1">>
EntryFull ==
    [title |-> "X", artists |-> <<[name |-> "Y"]>>, album |-> [name |-> "Z"],
     duration_ms |-> 200000, release_date |-> ReleaseDate, acrid |-> "a1"]
EntryOther ==
    [title |-> "X2", artists |-> <<[name |-> "Y2"], [name |-> "Y3"]>>,
     album |-> [name |-> "Z2"], duration_ms |-> 1500,
     release_date |-> <<"1", "9", "9">>, acrid |-> "a2"]
EntryBare == EmptyObj
EntryNoArtists ==
    [title |-> "X", artists |-> <<>>, album |-> [name |-> "Z"],
     duration_ms |-> 200000, release_date |-> ReleaseDate, acrid |-> "a1"]
EntryNoNames ==
    [title |-> "X", artists |-> <<EmptyObj>>, album |-> EmptyObj,
     duration_ms |-> 200000, release_date |-> <<>>, acrid |-> "a1"]

StatusOk == [code |-> 0, msg |-> "Success"]
StatusNoResult == [code |-> 1001, msg |-> "No result"]

\* what requests.post can come back with: an exception of requests, or a
\* response [status_code, json (the body parses), result (the parsed body)]
Outcomes ==
    << [raises |-> "Timeout"],
       [raises |-> "ConnectionError"],
       [raises |-> "none", status_code |-> 500, json |-> FALSE, result |-> EmptyObj],
       [raises |-> "none", status_code |-> 200, json |-> FALSE, result |-> EmptyObj],
       [raises |-> "none", status_code |-> 200, json |-> TRUE, result |-> EmptyObj],
       [raises |-> "none", status_code |-> 200, json |-> TRUE,
        result |-> [status |-> StatusNoResult]],
       [raises |-> "none", status_code |-> 200, json |-> TRUE,
        result |-> [status |-> StatusOk]],
       [raises |-> "none", status_code |-> 200, json |-> TRUE,
        result |-> [status |-> StatusOk, metadata |-> EmptyObj]],
       [raises |-> "none", status_code |-> 200, json |-> TRUE,
        result |-> [status |-> StatusOk, metadata |-> [music |-> <<>>]]],
       [raises |-> "none", status_code |-> 200, json |-> TRUE,
        result |-> [status |-> StatusOk, metadata |-> [music |-> <<EntryFull>>]]],
       [raises |-> "none", status_code |-> 200, json |-> TRUE,
        result |-> [status |-> StatusOk,
                    metadata |-> [music |-> <<EntryOther, EntryFull>>]]],
       [raises |-> "none", status_code |-> 200, json |-> TRUE,
        result |-> [status |-> StatusOk, metadata |-> [music |-> <<EntryBare>>]]],
       [raises |-> "none", status_code |-> 200, json |-> TRUE,
        result |-> [status |-> StatusOk,
                    metadata |-> [music |-> <<EntryNoArtists>>]]],
       [raises |-> "none", status_code |-> 200, json |-> TRUE,
        result |-> [status |-> StatusOk,
                    metadata |-> [music |-> <<EntryNoNames>>]]],
       [raises |-> "none", status_code |-> 500, json |-> TRUE,
        result |-> [status |-> StatusOk, metadata |-> [music |-> <<EntryFull>>]]],
       [raises |-> "none", status_code |-> 200, json |-> TRUE,
        result |-> [status |-> StatusNoResult,
                    metadata |-> [music |-> <<EntryFull>>]]] >>

\* s[:4]
First4(s) == SubSeq(s, 1, IF Len(s) < 4 THEN Len(s) ELSE 4)

\* lines 284-292: the record built from the first match; duration is the
\* quotient <<duration_ms, 1000>>
SongInfo(best_match) ==
    [title    |-> Get(best_match, "title", Unknown),
     artist   |-> Get(Get(best_match, "artists", <<EmptyObj>>)[1], "name", Unknown),
     album    |-> Get(Get(best_match, "album", EmptyObj), "name", Unknown),
     duration |-> <<Get(best_match, "duration_ms", 0), 1000>>,
     year     |-> LET y == First4(Get(best_match, "release_date", <<>>))
                  IN  IF y = <<>> THEN UnknownChars ELSE y,
     acr_id   |-> Get(best_match, "acrid", "None")]

\* a reading that does not look at the HTTP status
ParseResponseAnyStatus(r) ==
    IF ~r.json THEN [kind |-> "raised"]
    ELSE IF ~Has(r.result, "status") THEN [kind |-> "raised"]
    ELSE IF r.result.status.code # 0 THEN [kind |-> "none"]
    ELSE IF \/ ~Has(r.result, "metadata")
            \/ ~Has(r.result.metadata, "music")
            \/ Len(r.result.metadata.music) = 0 THEN [kind |-> "none"]
    ELSE LET best_match == r.result.metadata.music[1]
         IN  IF Len(Get(best_match, "artists", <<EmptyObj>>)) = 0
             THEN [kind |-> "raised"]
             ELSE [kind |-> "song", info |-> SongInfo(best_match)]

\* lines 269-292 on a response: "none" (return None at 271, 277 or 281),
\* "raised" (an exception, caught at 303) or "song" with the record
ParseResponse(r) ==
    IF r.status_code # 200 THEN [kind |-> "none"]
    ELSE IF ~r.json THEN [kind |-> "raised"]
    ELSE IF ~Has(r.result, "status") THEN [kind |-> "raised"]
    ELSE IF r.result.status.code # 0 THEN [kind |-> "none"]
    ELSE IF \/ ~Has(r.result, "metadata")
            \/ ~Has(r.result.metadata, "music")
            \/ Len(r.result.metadata.music) = 0 THEN [kind |-> "none"]
    ELSE LET best_match == r.result.metadata.music[1]
         IN  IF Len(Get(best_match, "artists", <<EmptyObj>>)) = 0
             THEN [kind |-> "raised"]
             ELSE [kind |-> "song", info |-> SongInfo(best_match)]

-----------------------------------------------------------------------------
(* MusicRecognizer.recognize_music and _save_cache *)

RmIdle ==
    [audio |-> None, key |-> <<>>, resp |-> 0, info |-> NoSong, posts |-> 0,
     created |-> 0, cache0 |-> <<>>, file0 |-> FileAbsent,
     temp0 |-> 0, saved |-> FALSE, result |-> "idle"]

\* the locals of a call that starts now
RmEnter(audio) ==
    [audio |-> audio, key |-> <<>>, resp |-> 0, info |-> NoSong, posts |-> 0,
     created |-> 0, cache0 |-> cache, file0 |-> cache_file,
     temp0 |-> temp_files, saved |-> FALSE, result |-> "pending"]

\* a lookup that never finds the key
CacheHasNever(c, key) == FALSE

\* line 216: fingerprint_key in self.cache
CacheHas(c, key) == key \in DictKeys(c)

\* lines 204-218: no audio, or a cache hit, return at once
RecognizeMusic_204 ==
    /\ pc = "recognize_music:204"
    /\ LET key == FingerprintKey(GenerateFingerprint(rm.audio))
       IN  IF rm.audio = None
           THEN /\ rm' = [rm EXCEPT !.result = "none"]
                /\ Return(NoSong)
           ELSE IF CacheHas(cache, key)
           THEN /\ rm' = [rm EXCEPT !.key = key, !.result = "hit"]
                /\ Return(DictGet(cache, key))
           ELSE /\ rm' = [rm EXCEPT !.key = key]
                /\ Goto("recognize_music:221")
    /\ UNCHANGED <<cache, cache_file, temp_files>>
    /\ UNCHANGED <<recVars, ctlVars, guiVars, obs, inputs>>

\* lines 221-223: _save_audio_temp writes the payload, or fails and returns
\* None.  The file is named after the second it is written in (line 190);
\* calls are taken to fall in different seconds, so temp_files counts files
RecognizeMusic_221 ==
    /\ pc = "recognize_music:221"
    /\ \E write \in inputs.disk :
          IF write = "ok"
          THEN /\ temp_files' = temp_files + 1
               /\ rm' = [rm EXCEPT !.created = @ + 1]
               /\ Goto("recognize_music:256")
          ELSE /\ rm' = [rm EXCEPT !.result = "none"]
               /\ Return(NoSong)
               /\ UNCHANGED temp_files
    /\ UNCHANGED <<cache, cache_file>>
    /\ UNCHANGED <<recVars, ctlVars, guiVars, obs, inputs>>

\* lines 225-292 and 300-305: the request is signed and posted once. An
\* exception of requests is caught at line 300 and None returned, the
\* temporary file left in place. Otherwise the temporary file is removed
\* (lines 263-267) and the response read: anything but a match returns None
RecognizeMusic_256 ==
    /\ pc = "recognize_music:256"
    /\ \E i \in inputs.outcomes :
          IF Outcomes[i].raises # "none"
          THEN /\ rm' = [rm EXCEPT !.posts = @ + 1, !.resp = i,
                                   !.result = "none"]
               /\ Return(NoSong)
               /\ UNCHANGED temp_files
          ELSE LET parsed == ParseResponse(Outcomes[i])
               IN  /\ temp_files' = temp_files - 1
                   /\ IF parsed.kind = "song"
                      THEN /\ rm' = [rm EXCEPT !.posts = @ + 1, !.resp = i,
                                               !.info = parsed.info]
                           /\ Goto("recognize_music:295")
                      ELSE /\ rm' = [rm EXCEPT !.posts = @ + 1, !.resp = i,
                                               !.result = "none"]
                           /\ Return(NoSong)
    /\ UNCHANGED <<cache, cache_file>>
    /\ UNCHANGED <<recVars, ctlVars, guiVars, obs, inputs>>

\* line 295: self.cache[fingerprint_key] = song_info; line 296 calls
\* _save_cache
RecognizeMusic_295 ==
    /\ pc = "recognize_music:295"
    /\ cache' = DictSet(cache, rm.key, rm.info)
    /\ Call("_save_cache:172", "recognize_music:298")
    /\ UNCHANGED <<cache_file, temp_files, rm>>
    /\ UNCHANGED <<recVars, ctlVars, guiVars, obs, inputs>>

\* a handler that puts the map back as it was when the call began
SaveFailedRollsBack(before, now) == before

\* lines 174-175: the handler logs a warning; self.cache stays as it is
SaveFailed(before, now) == now

\* line 172: open(cache_path, 'w') truncates the file, or fails (caught at
\* line 174)
SaveCache_172 ==
    /\ pc = "_save_cache:172"
    /\ \E write \in inputs.disk :
          IF write = "ok"
          THEN /\ cache_file' = FileCorrupt
               /\ Goto("_save_cache:173")
               /\ UNCHANGED cache
          ELSE /\ Return(None)
               /\ cache' = SaveFailed(rm.cache0, cache)
               /\ UNCHANGED cache_file
    /\ UNCHANGED <<temp_files, rm>>
    /\ UNCHANGED <<recVars, ctlVars, guiVars, obs, inputs>>

\* line 173: json.dump writes the whole map, or fails part-way (caught at
\* line 174)
SaveCache_173 ==
    /\ pc = "_save_cache:173"
    /\ \E write \in inputs.disk :
          IF write = "ok"
          THEN /\ cache_file' = FileJson(cache)
               /\ rm' = [rm EXCEPT !.saved = TRUE]
               /\ UNCHANGED cache
          ELSE /\ cache' = SaveFailed(rm.cache0, cache)
               /\ UNCHANGED <<cache_file, rm>>
    /\ Return(None)
    /\ UNCHANGED temp_files
    /\ UNCHANGED <<recVars, ctlVars, guiVars, obs, inputs>>

\* line 298
RecognizeMusic_298 ==
    /\ pc = "recognize_music:298"
    /\ rm' = [rm EXCEPT !.result = "song"]
    /\ Return(rm.info)
    /\ UNCHANGED <<cache, cache_file, temp_files>>
    /\ UNCHANGED <<recVars, ctlVars, guiVars, obs, inputs>>

recognize_music ==
    \/ RecognizeMusic_204
    \/ RecognizeMusic_221
    \/ RecognizeMusic_256
    \/ RecognizeMusic_295
    \/ SaveCache_172
    \/ SaveCache_173
    \/ RecognizeMusic_298

-----------------------------------------------------------------------------
(* MusicRecognitionSystem *)

Terminated == pc \in {"exit", "exit1", "fault"}

\* a listing with the newest record first
GetCachedResultsNewestFirst(c) ==
    [i \in 1..Len(c) |-> DictValues(c)[Len(c) + 1 - i]]

\* lines 325-327
GetCachedResults(c) == DictValues(c)

NoEvent == [cmd |-> "TIMEOUT", index |-> 0]

\* the user presses a button that is enabled, or selects a history line; the
\* window keeps the command until run() reads it
UserCommand ==
    /\ ~Terminated
    /\ Len(events) < MaxPending
    /\ \E e \in {[cmd |-> "START", index |-> 0], [cmd |-> "STOP", index |-> 0],
                 [cmd |-> "EXIT", index |-> 0]}
              \cup {[cmd |-> "HISTORY", index |-> i] : i \in 0..(Len(history) - 1)} :
          /\ e.cmd = "START" => ~listening
          /\ e.cmd = "STOP" => listening
          /\ events' = Append(events, e)
          /\ obs' = IF e.cmd = "STOP" /\ obs.phase # "none"
                    THEN [obs EXCEPT !.stop_during = obs.phase]
                    ELSE obs
    /\ UNCHANGED <<status, current_song, history>>
    /\ UNCHANGED <<mainVars, recVars, rzVars, ctlVars, inputs>>

\* lines 452-469: one event is read and served
Run_452 ==
    /\ pc = "run:452"
    /\ LET e == IF events = <<>> THEN NoEvent ELSE Head(events)
           cached_results == GetCachedResults(cache)
       IN  /\ events' = IF events = <<>> THEN events ELSE Tail(events)
           /\ CASE e.cmd = "EXIT" ->
                     /\ running' = FALSE
                     /\ pc' = "exit"
                     /\ UNCHANGED <<stack, retval, exc>>
                     /\ UNCHANGED <<listening, status, current_song>>
                [] e.cmd = "START" ->
                     /\ listening' = TRUE
                     /\ status' = "Listening for music..."
                     /\ Goto("run:472")
                     /\ UNCHANGED <<running, current_song>>
                [] e.cmd = "STOP" ->
                     /\ listening' = FALSE
                     /\ status' = "Ready"
                     /\ IF recording
                        THEN Call("stop_recording:113", "run:472")
                        ELSE Goto("run:472")
                     /\ UNCHANGED <<running, current_song>>
                [] e.cmd = "HISTORY" ->
                     /\ current_song' = IF e.index < Len(cached_results)
                                        THEN cached_results[e.index + 1]
                                        ELSE current_song
                     /\ Goto("run:472")
                     /\ UNCHANGED <<running, listening, status>>
                [] OTHER ->
                     /\ Goto("run:472")
                     /\ UNCHANGED <<running, listening, status, current_song>>
    /\ UNCHANGED <<elapsed, audio_data, history>>
    /\ UNCHANGED <<recVars, rzVars, obs, inputs>>

\* a loop that probes whatever the mode
ShouldProbeAlways == TRUE

\* line 472: if self.listening and not self.audio_recorder.recording
ShouldProbe == listening /\ ~recording

\* line 472, or the exception _stop_listening let through, which ends run()
\* and main() exits (lines 552-554)
Run_472 ==
    /\ pc = "run:472"
    /\ IF exc # "none"
       THEN /\ pc' = "exit1"
            /\ UNCHANGED <<stack, retval, exc>>
       ELSE IF ShouldProbe
       THEN Goto("run:473")
       ELSE Goto("run:452")
    /\ UNCHANGED <<recVars, rzVars, ctlVars, guiVars, obs, inputs>>

\* lines 473-474: the probe (is_sound_present, lines 133-148) finds sound
\* above the threshold, or below it, or fails, which counts as silence; on
\* sound _process_audio is called
Run_473 ==
    /\ pc = "run:473"
    /\ \E probe \in {"sound", "silence", "error"} :
          IF probe = "sound"
          THEN Call("process_audio:499", "run:475")
          ELSE Goto("run:452")
    /\ UNCHANGED <<recVars, rzVars, ctlVars, guiVars, obs, inputs>>

\* _process_audio has returned: the loop goes on, or the exception it let
\* through ends run() and main() exits (lines 552-554)
Run_475 ==
    /\ pc = "run:475"
    /\ IF exc # "none"
       THEN /\ pc' = "exit1"
            /\ UNCHANGED <<stack, retval, exc>>
       ELSE Goto("run:452")
    /\ obs' = [obs EXCEPT !.phase = "none"]
    /\ UNCHANGED <<recVars, rzVars, ctlVars, guiVars, inputs>>

\* lines 499-503
ProcessAudio_499 ==
    /\ pc = "process_audio:499"
    /\ status' = "Recording audio..."
    /\ Call("start_recording:89", "process_audio:504")
    /\ obs' = [obs EXCEPT !.phase = "Recording", !.stop_during = "none"]
    /\ UNCHANGED <<events, current_song, history>>
    /\ UNCHANGED <<recVars, rzVars, ctlVars, inputs>>

\* line 504, or the jump to line 540 when start_recording raised
ProcessAudio_504 ==
    /\ pc = "process_audio:504"
    /\ IF exc # "none"
       THEN /\ Goto("process_audio:541")
            /\ UNCHANGED elapsed
       ELSE /\ Goto("process_audio:507")
            /\ elapsed' = 0
    /\ UNCHANGED <<running, listening, audio_data>>
    /\ UNCHANGED <<recVars, rzVars, guiVars, obs, inputs>>

\* a first loop that stops one sleep early
MinLoopDoneEarly(t) == t + 1 >= min_recording_length * TicksPerSecond

\* line 507: time.time() - start_time < min_recording_length is false
MinLoopDone(t) == t >= min_recording_length * TicksPerSecond

RECURSIVE MinLoop(_)
\* lines 507-508: the time at which the loop ends, one time.sleep(0.1) a
\* round
MinLoop(t) == IF MinLoopDone(t) THEN t ELSE MinLoop(t + 1)

\* lines 507-508: the loop runs to its end; it reads the clock and nothing
\* else, and writes nothing
ProcessAudio_507 ==
    /\ pc = "process_audio:507"
    /\ elapsed' = MinLoop(elapsed)
    /\ Goto("process_audio:511")
    /\ UNCHANGED <<running, listening, audio_data>>
    /\ UNCHANGED <<recVars, rzVars, guiVars, obs, inputs>>

\* line 511: time.time() - start_time < max_recording_length is false
MaxLoopDone(t) == t >= max_recording_length * TicksPerSecond

\* lines 511-513: while below the maximum, probe (one second, or an error at
\* once); on sound sleep and go round
ProcessAudio_511 ==
    /\ pc = "process_audio:511"
    /\ IF MaxLoopDone(elapsed)
       THEN /\ Goto("process_audio:515")
            /\ UNCHANGED elapsed
       ELSE \E probe \in {"sound", "silence", "error"} :
               CASE probe = "sound" ->
                      /\ elapsed' = elapsed + ProbeTicks + 1
                      /\ Goto("process_audio:511")
                 [] probe = "silence" ->
                      /\ elapsed' = elapsed + ProbeTicks
                      /\ Goto("process_audio:515")
                 [] OTHER ->
                      /\ UNCHANGED elapsed
                      /\ Goto("process_audio:515")
    /\ UNCHANGED <<running, listening, audio_data>>
    /\ UNCHANGED <<recVars, rzVars, guiVars, obs, inputs>>

\* line 515; start_time is not read again
ProcessAudio_515 ==
    /\ pc = "process_audio:515"
    /\ Call("stop_recording:113", "process_audio:517")
    /\ elapsed' = 0
    /\ UNCHANGED <<running, listening, audio_data>>
    /\ UNCHANGED <<recVars, rzVars, guiVars, obs, inputs>>

\* a check that lets every buffer that is not None through
TooShortNever(audio) == audio = None

\* line 517
TooShort(audio) ==
    audio = None \/ NumSamples(audio) < min_recording_length * sample_rate

\* lines 517-526
ProcessAudio_517 ==
    /\ pc = "process_audio:517"
    /\ IF TooShort(retval)
       THEN /\ status' = "No valid audio captured"
            /\ Return(None)
            /\ UNCHANGED <<audio_data, rm, obs>>
       ELSE /\ status' = "Identifying song..."
            /\ audio_data' = retval
            /\ Call("recognize_music:204", "process_audio:528")
            /\ rm' = RmEnter(retval)
            /\ obs' = [obs EXCEPT !.phase = "Identifying"]
    /\ UNCHANGED <<running, listening, elapsed>>
    /\ UNCHANGED <<events, current_song, history>>
    /\ UNCHANGED <<recVars, cache, cache_file, temp_files, inputs>>

\* lines 528-538
ProcessAudio_528 ==
    /\ pc = "process_audio:528"
    /\ IF retval # NoSong
       THEN /\ current_song' = retval
            /\ status' = "Song identified!"
            /\ history' = GetCachedResults(cache)
       ELSE /\ status' = "Song not recognized"
            /\ UNCHANGED <<current_song, history>>
    /\ Return(None)
    /\ audio_data' = None
    /\ rm' = RmIdle
    /\ UNCHANGED <<events, obs>>
    /\ UNCHANGED <<running, listening, elapsed>>
    /\ UNCHANGED <<recVars, cache, cache_file, temp_files, inputs>>

\* a handler that never stops the recorder
StopInHandlerNever == FALSE

\* line 543: if self.audio_recorder.recording
StopInHandler == recording

\* lines 540-544: the handler stops the recording that start_recording left
\* flagged
ProcessAudio_541 ==
    /\ pc = "process_audio:541"
    /\ status' = "Error"
    /\ IF StopInHandler
       THEN Call("stop_recording:113", "process_audio:544")
       ELSE Return(None)
    /\ UNCHANGED <<events, current_song, history>>
    /\ UNCHANGED <<recVars, rzVars, ctlVars, obs, inputs>>

\* line 544 has returned, or raised inside the handler: that exception
\* leaves _process_audio
ProcessAudio_544 ==
    /\ pc = "process_audio:544"
    /\ IF exc # "none" THEN Raise(exc) ELSE Return(None)
    /\ UNCHANGED <<recVars, rzVars, ctlVars, guiVars, obs, inputs>>

process_audio ==
    \/ ProcessAudio_499
    \/ ProcessAudio_504
    \/ ProcessAudio_507
    \/ ProcessAudio_511
    \/ ProcessAudio_515
    \/ ProcessAudio_517
    \/ ProcessAudio_528
    \/ ProcessAudio_541
    \/ ProcessAudio_544

run == Run_452 \/ Run_472 \/ Run_473 \/ Run_475

-----------------------------------------------------------------------------
(* The program: MusicRecognitionSystem() and run(), lines 436-449. *)

ObsInit ==
    [calls |-> 0, restarts |-> 0, last |-> [key |-> <<>>, posts |-> 0],
     succeeded |-> {}, phase |-> "none", stop_during |-> "none",
     put |-> <<>>, unsaved |-> {}]

\* a buffer of n frames of amplitude a
Buffer(n, a) == [i \in 1..n |-> [amp |-> a, n |-> i, epoch |-> 0, rec |-> TRUE]]

\* a cache file that holds one record, stored for buffer b
FileWith(b) ==
    FileJson(<< <<FingerprintKey(GenerateFingerprint(b)), SongInfo(EntryOther)>> >>)

InitCommon ==
    /\ stack = <<>>
    /\ retval = None
    /\ exc = "none"
    /\ recording = FALSE
    /\ audio_queue = <<>>
    /\ stream = "unset"
    /\ epoch = 0
    /\ delivered = 0
    /\ ambient = 1
    /\ cb = CbIdle
    /\ cache_file \in inputs.files
    /\ cache = LoadCache(cache_file)
    /\ temp_files = 0
    /\ rm = RmIdle
    /\ running = TRUE
    /\ listening = FALSE
    /\ elapsed = 0
    /\ audio_data = None
    /\ events = <<>>
    /\ status = "Ready"
    /\ current_song = NoSong
    /\ history = GetCachedResults(cache)
    /\ obs = ObsInit

\* the whole program: one amplitude, a disk that works, a cache file that is
\* absent or holds a record; the service answers 500 or names a song
Init ==
    /\ pc = "run:452"
    /\ inputs = [amps |-> {1}, outcomes |-> {3, 10, 11}, disk |-> {"ok"},
                 files |-> {FileAbsent, FileWith(Buffer(2, 1))}]
    /\ InitCommon

Next ==
    \/ UserCommand
    \/ run
    \/ process_audio
    \/ start_recording
    \/ stop_recording
    \/ Callback
    \/ recognize_music

Spec == Init /\ [][Next]_vars

-----------------------------------------------------------------------------
(* An AudioRecorder driven directly: start_recording and stop_recording    *)
(* called in any order, against the callback thread.                       *)

ClientRecorder ==
    /\ pc = "client:recorder"
    /\ \/ Call("start_recording:89", "client:recorder")
       \/ Call("stop_recording:113", "client:recorder")
    /\ UNCHANGED <<recVars, rzVars, ctlVars, guiVars, obs, inputs>>

InitRecorder ==
    /\ pc = "client:recorder"
    /\ inputs = [amps |-> Amps, outcomes |-> {}, disk |-> {"ok"},
                 files |-> {FileAbsent}]
    /\ InitCommon

NextRecorder ==
    \/ ClientRecorder
    \/ start_recording
    \/ stop_recording
    \/ Callback

SpecRecorder == InitRecorder /\ [][NextRecorder]_vars

-----------------------------------------------------------------------------
(* A MusicRecognizer driven directly: recognize_music called with any      *)
(* buffer, every outcome of the request and of the disk, and the           *)
(* recognizer constructed again over the same cache file.                  *)

\* the buffers of n frames over the amplitudes A
BuffersOf(n, A) ==
    {[i \in 1..n |-> [amp |-> f[i], n |-> i, epoch |-> 0, rec |-> TRUE]] :
        f \in [1..n -> A]}

ClientBuffers == UNION {BuffersOf(n, inputs.amps) : n \in 0..MaxBufFrames}

ClientRecognize ==
    /\ pc = "client:recognizer"
    /\ obs.calls < MaxCalls
    /\ \E audio \in ClientBuffers :
          /\ rm' = RmEnter(audio)
          /\ Call("recognize_music:204", "client:returned")
    /\ obs' = [obs EXCEPT !.calls = @ + 1]
    /\ UNCHANGED <<cache, cache_file, temp_files>>
    /\ UNCHANGED <<recVars, ctlVars, guiVars, inputs>>

\* the observation once the call that has returned is over: its requests
\* and, when it made any, its key; the keys for which a call has returned a
\* record; and the keys stored by a call whose _save_cache (lines 168-175)
\* did not write the file
Completed ==
    [obs EXCEPT !.last = [key |-> IF rm.posts > 0 THEN rm.key ELSE <<>>,
                          posts |-> rm.posts],
                !.succeeded = IF rm.result \in {"hit", "song"}
                              THEN @ \cup {rm.key} ELSE @,
                !.unsaved = IF rm.result = "song" /\ ~rm.saved
                            THEN @ \cup {rm.key} ELSE @]

\* the client has looked at the result
ClientReturned ==
    /\ pc = "client:returned"
    /\ rm' = RmIdle
    /\ pc' = "client:recognizer"
    /\ retval' = None
    /\ obs' = Completed
    /\ UNCHANGED <<stack, exc>>
    /\ UNCHANGED <<cache, cache_file, temp_files>>
    /\ UNCHANGED <<recVars, ctlVars, guiVars, inputs>>

\* the process ends wherever it is and a new MusicRecognizer is constructed
\* (line 154: self.cache = self._load_cache())
Restart ==
    /\ obs.restarts < MaxRestarts
    /\ pc' = "client:recognizer"
    /\ stack' = <<>>
    /\ retval' = None
    /\ exc' = "none"
    /\ cache' = LoadCache(cache_file)
    /\ rm' = RmIdle
    /\ obs' = [obs EXCEPT !.restarts = @ + 1, !.succeeded = {},
                          !.unsaved = {},
                          !.last = [key |-> <<>>, posts |-> 0]]
    /\ UNCHANGED <<cache_file, temp_files>>
    /\ UNCHANGED <<recVars, ctlVars, guiVars, inputs>>

InitRecognizer ==
    /\ pc = "client:recognizer"
    /\ inputs = [amps |-> Amps, outcomes |-> 1..Len(Outcomes),
                 disk |-> {"ok", "fail"},
                 files |-> {FileAbsent, FileCorrupt, FileWith(Buffer(1, 1))}]
    /\ InitCommon

NextRecognizer ==
    \/ ClientRecognize
    \/ ClientReturned
    \/ Restart
    \/ recognize_music

SpecRecognizer == InitRecognizer /\ [][NextRecognizer]_vars

-----------------------------------------------------------------------------
(* Properties. *)

\* a call of recognize_music is in progress or has just returned
InCall == rm.result # "idle"

\* recognize_music has returned to its caller, which has not moved on yet
Returned == pc \in {"client:returned", "process_audio:528"}

\* the response the call in progress received, if it received one
Response == Outcomes[rm.resp]

C1_Short(b) ==
    b = None \/ Len(b) * chunk_size < min_recording_length * sample_rate

\* C1: a recorded buffer that is None or shorter than
\* min_recording_length * sample_rate samples is never passed to
\* recognize_music; _process_audio sets the status "No valid audio captured"
\* and returns to the main loop with no call made.
C1_ShortBufferNeverIdentified ==
    /\ [](InCall => ~C1_Short(rm.audio))
    /\ [][(pc = "process_audio:517" /\ pc' # pc /\ C1_Short(retval))
            => (/\ status' = "No valid audio captured"
                /\ pc' = "run:475"
                /\ rm' = rm)]_vars

\* stop_recording has handed _process_audio a buffer that is too short
C1_Witness ==
    /\ pc = "process_audio:517"
    /\ retval # None
    /\ C1_Short(retval)

\* C2: when _process_audio stops the recording, between min_recording_length
\* and max_recording_length seconds have passed since it started it.
C2_DurationWithinBounds ==
    pc = "process_audio:515" =>
        /\ elapsed >= min_recording_length * TicksPerSecond
        /\ elapsed <= max_recording_length * TicksPerSecond

\* C3 as stated: of two calls in a row with the same fingerprint key, at most
\* one contacts the remote service, whatever the first call returned.
C3_AtMostOneContact ==
    ~(InCall /\ rm.posts > 0 /\ obs.last.posts > 0 /\ obs.last.key = rm.key)

\* C3: once a call has returned a record for a fingerprint key, no later call
\* with that key contacts the remote service.
C3_NoContactAfterRecord ==
    (InCall /\ rm.key \in obs.succeeded) => rm.posts = 0

\* the service named the song in the first call; the second call with the
\* same key is a cache hit
C3_Witness ==
    /\ pc = "client:returned"
    /\ rm.result = "hit"
    /\ obs.last.key = rm.key
    /\ obs.last.posts = 1

C4_Transient(r) == r.raises # "none" \/ r.status_code # 200

\* C4: a call that met a transient failure returns None only after
\* retry_count requests.
C4_RetriesBeforeNone ==
    (Returned /\ rm.posts > 0 /\ retval = NoSong /\ C4_Transient(Response))
        => rm.posts = retry_count

C5_Unsuccessful(r) ==
    \/ r.raises # "none"
    \/ r.status_code # 200
    \/ ~r.json
    \/ ~Has(r.result, "status")
    \/ r.result.status.code # 0
    \/ ~Has(r.result, "metadata")
    \/ ~Has(r.result.metadata, "music")
    \/ Len(r.result.metadata.music) = 0

\* C5: every unsuccessful outcome returns None, raises nothing and leaves
\* the cache and the cache file as they were when the call began; the cache
\* and the file change only in a call whose response was a success.
C5_FailureLeavesCache ==
    /\ (Returned /\ (rm.result = "none" \/ (rm.resp > 0 /\ C5_Unsuccessful(Response))))
          => (/\ retval = NoSong
              /\ exc = "none"
              /\ cache = rm.cache0
              /\ cache_file = rm.file0)
    /\ (InCall /\ (cache # rm.cache0 \/ cache_file # rm.file0))
          => (rm.resp > 0 /\ ~C5_Unsuccessful(Response))

\* the service answered 200 with an empty music list while the cache held a
\* record
C5_Witness ==
    /\ pc = "client:returned"
    /\ rm.resp = 9
    /\ cache # <<>>
    /\ cache_file.state = "json"

\* C6: a buffer that was being captured when the user pressed stop is never
\* handed to recognize_music.
C6_StopDiscardsRecording ==
    obs.stop_during = "Recording" => ~InCall

\* C7: a stream error never ends the process.
C7_StreamErrorRecovered ==
    pc \notin {"exit1", "fault"}

\* C8: when recognize_music returns, every temporary payload the call
\* created has been deleted, and it created one per request.
C8_TempPayloadDeleted ==
    Returned => (temp_files = rm.temp0 /\ rm.created = rm.posts)

\* C9: a call whose fingerprint key was in the cache when it began returns
\* the cached record, makes no request, creates no temporary payload and
\* leaves the cache and the cache file unchanged.
C9_CacheHitIsPure ==
    LET key == FingerprintKey(GenerateFingerprint(rm.audio))
    IN  (InCall /\ rm.audio # None /\ key \in DictKeys(rm.cache0)) =>
            /\ rm.posts = 0
            /\ rm.created = 0
            /\ temp_files = rm.temp0
            /\ cache = rm.cache0
            /\ cache_file = rm.file0
            /\ Returned => retval = DictGet(rm.cache0, key)

\* a call has returned on a cache hit
C9_Witness ==
    /\ pc = "client:returned"
    /\ rm.result = "hit"
    /\ retval # NoSong

\* C10: a frame the callback was handed while recording was false is never
\* in the queue, never about to be put there, and never in a buffer
\* stop_recording returned.
C10_NoFrameWhileNotRecording ==
    /\ \A i \in 1..Len(audio_queue) : audio_queue[i].rec
    /\ cb.at = "85" => cb.frame[1].rec
    /\ \A i \in 1..Len(retval) : retval[i].rec

\* the callback has been handed a frame while recording is false
C10_Witness ==
    /\ cb.at = "84"
    /\ ~cb.frame[1].rec
    /\ ~recording

\* C11: stop_recording returns the frames the callback has put since the
\* start_recording that began the recording, in the order they were put,
\* each once and none from an earlier recording; it returns None when none
\* was put and when no recording is in progress.
C11_StopReturnsFramesInOrder ==
    /\ [][(pc = "stop_recording:123" /\ pc' # pc)
            => retval' = (IF obs.put = <<>> THEN None ELSE obs.put)]_vars
    /\ [][(pc = "stop_recording:113" /\ pc' # pc /\ ~recording)
            => (retval' = None /\ pc' = Head(stack))]_vars
    /\ [](pc = "stop_recording:123" =>
            \A i \in 1..Len(obs.put) :
                /\ obs.put[i].epoch = epoch
                /\ \A j \in 1..Len(obs.put) : i < j => obs.put[i].n < obs.put[j].n)

\* stop_recording is about to hand back a recording of two frames or more
C11_Witness ==
    /\ pc = "stop_recording:123"
    /\ Len(audio_queue) >= 2

\* C12: start_recording called while recording is true returns at once and
\* leaves the flag, the queued frames and the stream as they are; no stream
\* is constructed.
C12_StartWhileRecordingIsNoOp ==
    [][(pc = "start_recording:89" /\ pc' # pc /\ recording)
        => (/\ pc' = Head(stack)
            /\ recording' = recording
            /\ audio_queue' = audio_queue
            /\ stream' = stream
            /\ epoch' = epoch)]_vars

\* start_recording is entered while a stream is capturing and a frame is
\* queued
C12_Witness ==
    /\ pc = "start_recording:89"
    /\ recording
    /\ stream = "active"
    /\ audio_queue # <<>>

\* the call in progress has returned a record it received from the service
Stored == Returned /\ rm.result = "song"

\* a lookup of key k in map d gives record r
C13_Lookup(d, k, r) == k \in DictKeys(d) /\ DictGet(d, k) = r

\* C13 as stated: after a recognition has stored (key, record), a lookup of
\* key gives record, in memory and in the map a new MusicRecognizer loads
\* from the cache file.
C13_RoundTripAlways ==
    Stored => /\ C13_Lookup(cache, rm.key, rm.info)
              /\ C13_Lookup(LoadCache(cache_file), rm.key, rm.info)

\* C13: after a recognition has stored (key, record), a lookup of key gives
\* record; when _save_cache wrote the file, so does a lookup in the map a
\* new MusicRecognizer loads from it, and in the cache of a MusicRecognizer
\* constructed at that point.
C13_RoundTripWhenSaved ==
    /\ [](Stored => C13_Lookup(cache, rm.key, rm.info))
    /\ []((Stored /\ rm.saved)
            => C13_Lookup(LoadCache(cache_file), rm.key, rm.info))
    /\ [][(Stored /\ rm.saved /\ obs'.restarts = obs.restarts + 1)
            => C13_Lookup(cache', rm.key, rm.info)]_vars

\* a record has been stored next to an earlier one and the file written
C13_Witness ==
    /\ Stored
    /\ rm.saved
    /\ Len(cache) >= 2

\* C14: a store whose _save_cache fails still returns the record and keeps
\* it in self.cache, nothing is raised, and a later call with the same key
\* in the same run is a cache hit that makes no request.
C14_SaveFailureKeepsInsert ==
    /\ (Stored /\ ~rm.saved)
          => (/\ retval = rm.info
              /\ exc = "none"
              /\ C13_Lookup(cache, rm.key, rm.info))
    /\ (InCall /\ rm.key \in obs.unsaved)
          => (/\ rm.posts = 0
              /\ Returned => (rm.result = "hit" /\ retval = DictGet(cache, rm.key)))

\* a call has hit a record that an earlier call stored without writing the
\* file
C14_Witness ==
    /\ pc = "client:returned"
    /\ rm.result = "hit"
    /\ rm.key \in obs.unsaved
    /\ rm.key \notin DictKeys(LoadCache(cache_file))

\* the main thread is inside _process_audio or a method it has called
InProcessAudio == "run:475" \in {stack[i] : i \in 1..Len(stack)}

\* C15: _process_audio, and with it start_recording, is entered only from
\* the probe of the main loop, in listening mode and with no recording in
\* progress; a probe that finds silence or fails goes back to the loop with
\* the mode and the recorder as they were; while listening is false nothing
\* is probed, no recording is in progress and no stream is capturing.
C15_RecordOnlyAfterProbeWhileListening ==
    /\ [][(pc' = "process_audio:499" /\ pc # pc')
            => (pc = "run:473" /\ listening /\ ~recording)]_vars
    /\ [][(pc' = "start_recording:89" /\ pc # pc')
            => (pc = "process_audio:499" /\ listening)]_vars
    /\ [][(pc = "run:473" /\ pc' = "run:452")
            => (/\ listening' /\ listening
                /\ ~recording'
                /\ stream' = stream
                /\ epoch' = epoch)]_vars
    /\ [](pc = "run:473" => (listening /\ ~recording))
    /\ [](~listening
            => (/\ ~recording
                /\ stream # "active"
                /\ pc # "run:473"
                /\ ~InProcessAudio))

\* a probe of the main loop has found sound and _process_audio begins
C15_Witness ==
    /\ pc = "process_audio:499"
    /\ listening
    /\ ~recording
    /\ epoch >= 1

\* C16: when recognize_music returns to _process_audio, listening is true
\* and no recording is in progress; _process_audio returns to the loop; on a
\* record the display gets the record as current song and the records of
\* the cache, in insertion order, as history; on None the display keeps
\* both.  Back in the loop, an iteration that finds listening true and no
\* recording probes.
C16_BackToListeningAfterIdentify ==
    /\ [](pc = "process_audio:528"
            => (listening /\ ~recording /\ stream # "active" /\ exc = "none"))
    /\ [][(pc = "process_audio:528" /\ pc' # pc)
            => (/\ pc' = "run:475"
                /\ listening' /\ ~recording' /\ exc' = "none"
                /\ IF retval # NoSong
                   THEN /\ current_song' = retval
                        /\ history' = DictValues(cache)
                        /\ status' = "Song identified!"
                   ELSE /\ current_song' = current_song
                        /\ history' = history
                        /\ status' = "Song not recognized")]_vars
    /\ [][(pc = "run:475" /\ pc' # pc /\ exc = "none")
            => (pc' = "run:452" /\ listening' /\ ~recording')]_vars
    /\ [][(pc = "run:472" /\ pc' # pc /\ exc = "none" /\ listening /\ ~recording)
            => pc' = "run:473"]_vars

\* recognize_music has returned a record to _process_audio and the cache
\* holds two records
C16_Witness ==
    /\ pc = "process_audio:528"
    /\ retval # NoSong
    /\ Len(cache) >= 2

\* the main thread is at a statement that reads or writes the cache: the
\* lookup (line 216), the store (line 295), the save (lines 172-173), the
\* history read after an identification (line 534) or for a selection in
\* the history list (line 467)
CacheAccess ==
    \/ pc \in {"recognize_music:204", "recognize_music:295", "_save_cache:172",
               "_save_cache:173", "process_audio:528"}
    \/ (pc = "run:452" /\ events # <<>> /\ Head(events).cmd = "HISTORY")

\* C17: whenever the cache is read or written, recording is false, no
\* capture stream is open and no callback is running.
C17_NoCacheAccessWhileRecording ==
    CacheAccess => (/\ ~recording
                    /\ stream \notin {"open", "active"}
                    /\ cb.at = "idle")

\* the record of a buffer that was just captured is about to be stored
C17_Witness ==
    /\ pc = "recognize_music:295"
    /\ InProcessAudio
    /\ stream = "closed"

\* C18: at every point of a call, also inside _save_cache, every record the
\* cache file held when the call began is in the map a _load_cache would
\* read from the file now.
C18_NoPersistedEntryLost ==
    InCall => \A k \in DictKeys(LoadCache(rm.file0)) :
                  C13_Lookup(LoadCache(cache_file), k, DictGet(LoadCache(rm.file0), k))

\* an HTTP 200 response with status.code 0 and a music list that is not
\* empty
C19_Match(r) ==
    /\ r.raises = "none" /\ r.status_code = 200 /\ r.json
    /\ Has(r.result, "status") /\ r.result.status.code = 0
    /\ Has(r.result, "metadata") /\ Has(r.result.metadata, "music")
    /\ Len(r.result.metadata.music) > 0

\* the name of the first artist, of the album, and the year of an entry,
\* "Unknown" for what the entry does not carry
C19_Artist(e) ==
    IF Has(e, "artists") /\ Len(e.artists) > 0 /\ Has(e.artists[1], "name")
    THEN e.artists[1].name ELSE Unknown
C19_Album(e) ==
    IF Has(e, "album") /\ Has(e.album, "name") THEN e.album.name ELSE Unknown
C19_Year(e) ==
    IF Has(e, "release_date") /\ Len(e.release_date) > 0
    THEN First4(e.release_date) ELSE UnknownChars

\* C19: a call that received an HTTP 200 response with status.code 0 and a
\* music list that is not empty returns a record of the first entry, with
\* "Unknown" for a title, artist, album or year the entry does not carry,
\* and the cache maps the key to that record.
C19_MatchGivesRecord ==
    (Returned /\ rm.resp > 0 /\ C19_Match(Response))
        => LET e == Response.result.metadata.music[1]
           IN  /\ rm.result = "song"
               /\ retval # NoSong
               /\ retval.title = Get(e, "title", Unknown)
               /\ retval.artist = C19_Artist(e)
               /\ retval.album = C19_Album(e)
               /\ retval.year = C19_Year(e)
               /\ C13_Lookup(cache, rm.key, retval)

\* C20: whenever the loop is about to read an event the recorder's flag is
\* false and no stream is delivering; _process_audio hands control back to
\* run() with the flag false, whether it returns or raises; and serving an
\* event never enters stop_recording, so _stop_listening never discards a
\* recording.
C20_NoEventServedWhileRecording ==
    /\ [](pc = "run:452" => (~recording /\ stream # "active"))
    /\ [](pc = "run:475" => ~recording)
    /\ [][(pc = "run:452" /\ pc' # pc) => pc' \in {"run:472", "exit"}]_vars
    /\ [][(pc' = "stop_recording:113" /\ pc # pc')
            => pc \in {"process_audio:515", "process_audio:541"}]_vars

\* a stop pressed while a recording ran is read by the loop afterwards
C20_Witness ==
    /\ pc = "run:452" /\ events # <<>> /\ Head(events).cmd = "STOP"
    /\ obs.stop_during = "Recording" /\ epoch >= 1

\* p is the beginning of q
C21_Prefix(p, q) == Len(p) =< Len(q) /\ SubSeq(q, 1, Len(p)) = p

\* C21: within one run of the recognizer every step leaves the entries the
\* cache holds where they are, key and record, and what it adds comes after
\* them, so the history list keeps its entries at their places; and the key
\* a record is stored under at line 295 is never one the cache holds.
C21_CacheOnlyGrows ==
    /\ [][obs'.restarts = obs.restarts
            => /\ C21_Prefix(cache, cache')
               /\ \A k \in DictKeys(cache) :
                     C13_Lookup(cache', k, DictGet(cache, k))
               /\ C21_Prefix(GetCachedResults(cache),
                             GetCachedResults(cache'))]_vars
    /\ [](pc = "recognize_music:295" => rm.key \notin DictKeys(cache))

\* a call for the oldest key of a cache that has grown in this run is a hit
C21_Witness ==
    /\ pc = "client:returned" /\ rm.result = "hit" /\ obs.restarts = 0
    /\ Len(cache) >= 2 /\ rm.key = cache[1][1]
    /\ cache[2][1] \in obs.succeeded

=============================================================================
